---------------------------- MODULE Spec2Model ----------------------------
(***************************************************************************)
(* Model of src/src/clean_data.py: the master-data cleaning pipeline        *)
(*   read_csv -> normalize_strings -> normalize_types -> validate_rows      *)
(*   -> to_csv / to_csv / save_sqlite / write_report -> KPI print.          *)
(*                                                                          *)
(* A text is a sequence of one-character strings.  A cell of the data       *)
(* frame is a record [t, s, n]: t is the Python type of the value           *)
(*   "str"   s = the characters                                             *)
(*   "int"   n = the value             (int64 column read by pandas)        *)
(*   "float" n = the whole part, x.0   (int column holding a missing cell)  *)
(*   "bool"  n = 1 for True, 0 for False                                    *)
(*   "nan"   float NaN, what pandas reads for an empty CSV cell             *)
(*   "none"  Python None                                                    *)
(*                                                                          *)
(* The library calls are modelled as pandas 1.x/2.x (object columns) and    *)
(* dateutil 2.x carry them out: astype(str) renders NaN as "nan" and None   *)
(* as "None"; replace({"": None}) stores None; the .str methods and         *)
(* df.apply(axis=1) hand a stored None on as None.                          *)
(***************************************************************************)
EXTENDS Integers, Sequences, FiniteSets, TLC

VARIABLES pc, columns, input, df, error, valid0, valid, invalid, before,
          dropped, outputs, report, kpi, prev, passes

vars == <<pc, columns, input, df, error, valid0, valid, invalid, before,
          dropped, outputs, report, kpi, prev, passes>>

---------------------------------------------------------------------------
(* Cells *)

StrV(s) == [t |-> "str", s |-> s, n |-> 0]
IntV(n) == [t |-> "int", s |-> <<>>, n |-> n]
FloatV(n) == [t |-> "float", s |-> <<>>, n |-> n]
BoolV(b) == [t |-> "bool", s |-> <<>>, n |-> IF b THEN 1 ELSE 0]
NaN == [t |-> "nan", s |-> <<>>, n |-> 0]
None == [t |-> "none", s |-> <<>>, n |-> 0]

PyTrue == BoolV(TRUE)
PyFalse == BoolV(FALSE)

\* pd.isna(val) for a scalar
isna(val) == val.t \in {"nan", "none"}

\* Python truthiness, as used by `not row[...]`
Truthy(val) ==
    CASE val.t = "none" -> FALSE
      [] val.t = "nan" -> TRUE
      [] val.t = "str" -> val.s # <<>>
      [] OTHER -> val.n # 0

---------------------------------------------------------------------------
(* Text primitives *)

Whitespace == {" ", "\t", "\n"}

Digits == <<"0", "1", "2", "3", "4", "5", "6", "7", "8", "9">>

UpperLetters == <<"A", "B", "C", "D", "E", "F", "G", "H", "I", "J", "K", "L", "M",
                  "N", "O", "P", "Q", "R", "S", "T", "U", "V", "W", "X", "Y", "Z">>

LowerLetters == <<"a", "b", "c", "d", "e", "f", "g", "h", "i", "j", "k", "l", "m",
                  "n", "o", "p", "q", "r", "s", "t", "u", "v", "w", "x", "y", "z">>

LowerChar(c) ==
    IF \E i \in 1..Len(UpperLetters) : UpperLetters[i] = c
    THEN LowerLetters[CHOOSE i \in 1..Len(UpperLetters) : UpperLetters[i] = c]
    ELSE c

\* str.lower()
lower(s) == [i \in 1..Len(s) |-> LowerChar(s[i])]

RECURSIVE lstrip(_)
lstrip(s) ==
    IF s # <<>> /\ Head(s) \in Whitespace THEN lstrip(Tail(s)) ELSE s

RECURSIVE rstrip(_)
rstrip(s) ==
    IF s # <<>> /\ s[Len(s)] \in Whitespace
    THEN rstrip(SubSeq(s, 1, Len(s) - 1))
    ELSE s

\* str.strip()
strip(s) == rstrip(lstrip(s))

IsDigit(c) == \E i \in 1..Len(Digits) : Digits[i] = c

DigitVal(c) == (CHOOSE i \in 1..Len(Digits) : Digits[i] = c) - 1

RECURSIVE NatToText(_)
NatToText(n) ==
    IF n < 10 THEN <<Digits[n + 1]>>
    ELSE NatToText(n \div 10) \o <<Digits[(n % 10) + 1]>>

RECURSIVE TextToNat(_)
TextToNat(s) ==
    IF s = <<>> THEN 0
    ELSE 10 * TextToNat(SubSeq(s, 1, Len(s) - 1)) + DigitVal(s[Len(s)])

\* str(val) of a cell value
str(val) ==
    CASE val.t = "str" -> val.s
      [] val.t = "int" -> NatToText(val.n)
      [] val.t = "float" -> NatToText(val.n) \o <<".", "0">>
      [] val.t = "bool" -> IF val.n = 1 THEN <<"T", "r", "u", "e">>
                                        ELSE <<"F", "a", "l", "s", "e">>
      [] val.t = "nan" -> <<"n", "a", "n">>
      [] val.t = "none" -> <<"N", "o", "n", "e">>

---------------------------------------------------------------------------
(* normalize_strings, cell by cell *)

RECURSIVE WsRun(_)
\* length of the whitespace run s starts with
WsRun(s) ==
    IF s # <<>> /\ Head(s) \in Whitespace THEN 1 + WsRun(Tail(s)) ELSE 0

RECURSIVE CollapseSpaces(_)
\* re.sub(r"\s{2,}", " ", s): a run of two or more whitespace characters
\* becomes one space; a single whitespace character is kept as it is
CollapseSpaces(s) ==
    IF s = <<>> THEN <<>>
    ELSE IF WsRun(s) >= 2
         THEN <<" ">> \o CollapseSpaces(SubSeq(s, WsRun(s) + 1, Len(s)))
         ELSE <<Head(s)>> \o CollapseSpaces(Tail(s))

\* df[col].astype(str).str.strip()
AstypeStrStrip(val) == StrV(strip(str(val)))

\* .replace({"": None})
ReplaceEmpty(val) == IF val = StrV(<<>>) THEN None ELSE val

\* .str.replace(r"\s{2,}", " ", regex=True): a missing value stays missing
StrReplaceSpaces(val) ==
    IF isna(val) THEN val ELSE StrV(CollapseSpaces(val.s))

NormNameCell(val) == StrReplaceSpaces(ReplaceEmpty(AstypeStrStrip(val)))

NormTextCell(val) == ReplaceEmpty(AstypeStrStrip(val))

NormIdCell(val) == AstypeStrStrip(val)

normalize_strings_row(r) ==
    [r EXCEPT !.name = NormNameCell(r.name),
              !.email = NormTextCell(r.email),
              !.role = NormTextCell(r.role),
              !.id = NormIdCell(r.id)]

normalize_strings(d) == [i \in 1..Len(d) |-> normalize_strings_row(d[i])]

---------------------------------------------------------------------------
(* normalize_types, cell by cell *)

TrueTokens == {<<"t", "r", "u", "e">>, <<"1">>, <<"y", "e", "s">>, <<"y">>}

FalseTokens == {<<"f", "a", "l", "s", "e">>, <<"0">>, <<"n", "o">>, <<"n">>}

\* Mutation of parse_bool: an unknown token counts as False.
parse_bool_default_false(val) ==
    IF isna(val) THEN None
    ELSE IF lower(strip(str(val))) \in TrueTokens THEN PyTrue ELSE PyFalse

\* Mutation of parse_bool: the text is not lower-cased.
parse_bool_case_sensitive(val) ==
    IF isna(val) THEN None
    ELSE LET s == strip(str(val))
         IN IF s \in TrueTokens THEN PyTrue
            ELSE IF s \in FalseTokens THEN PyFalse
            ELSE None

parse_bool(val) ==
    IF isna(val) THEN None
    ELSE LET s == lower(strip(str(val)))
         IN IF s \in TrueTokens THEN PyTrue
            ELSE IF s \in FalseTokens THEN PyFalse
            ELSE None

DateSeps == {"-", "/", "."}

RECURSIVE DigitRun(_)
DigitRun(s) ==
    IF s # <<>> /\ IsDigit(Head(s)) THEN 1 + DigitRun(Tail(s)) ELSE 0

RECURSIVE NumberTokens(_)
\* The numeric tokens of a text made of digit runs joined by single date
\* separators; <<>> when the text has another shape.
NumberTokens(s) ==
    LET k == DigitRun(s)
    IN IF k = 0 THEN <<>>
       ELSE IF k = Len(s) THEN <<s>>
       ELSE IF s[k + 1] \in DateSeps /\ k + 1 < Len(s)
            THEN LET rest == NumberTokens(SubSeq(s, k + 2, Len(s)))
                 IN IF rest = <<>> THEN <<>>
                    ELSE <<SubSeq(s, 1, k)>> \o rest
            ELSE <<>>

IsLeap(y) == (y % 4 = 0 /\ y % 100 # 0) \/ y % 400 = 0

DaysInMonth(y, m) ==
    IF m = 2 THEN (IF IsLeap(y) THEN 29 ELSE 28)
    ELSE IF m \in {4, 6, 9, 11} THEN 30 ELSE 31

Pad(s, w) == [i \in 1..(w - Len(s)) |-> "0"] \o s

\* date.isoformat()
isoformat(y, m, d) ==
    Pad(NatToText(y), 4) \o <<"-">> \o Pad(NatToText(m), 2) \o <<"-">>
        \o Pad(NatToText(d), 2)

\* dateutil's _ymd.resolve_ymd for three numeric members, dayfirst=True,
\* yearfirst=False, no month name; ystridx is the index (from 0) of the
\* member written with more than two digits.  Result <<year, month, day>>.
resolve_ymd(a, ystridx) ==
    IF a[1] > 31 \/ ystridx = 0
    THEN IF a[3] <= 12 THEN <<a[1], a[3], a[2]>>
                       ELSE <<a[1], a[2], a[3]>>
    ELSE IF a[1] > 12 \/ a[2] <= 12
         THEN <<a[3], a[2], a[1]>>
         ELSE <<a[3], a[1], a[2]>>

ValidDate(ymd) ==
    /\ ymd[1] \in 1..9999
    /\ ymd[2] \in 1..12
    /\ ymd[3] \in 1..DaysInMonth(ymd[1], ymd[2])

\* dateparser.parse(text, dayfirst=True) followed by .date().isoformat(),
\* on the texts of three numeric fields of which exactly one, the year, has
\* more than two digits (the only date texts the inputs below hold); any
\* exception of the parser gives None.
dateparser_parse(text) ==
    LET toks == NumberTokens(strip(text))
        long == {i \in 1..Len(toks) : Len(toks[i]) > 2}
    IN IF Len(toks) # 3 \/ Cardinality(long) # 1 THEN None
       ELSE LET a == [i \in 1..3 |-> TextToNat(toks[i])]
                ymd == resolve_ymd(a, (CHOOSE i \in long : TRUE) - 1)
            IN IF ValidDate(ymd) THEN StrV(isoformat(ymd[1], ymd[2], ymd[3]))
               ELSE None

parse_date(x) ==
    IF isna(x) \/ strip(str(x)) = <<>> THEN None ELSE dateparser_parse(str(x))

normalize_types_row(r) ==
    [r EXCEPT !.active = parse_bool(r.active),
              !.start_date = parse_date(r.start_date)]

normalize_types(d) == [i \in 1..Len(d) |-> normalize_types_row(d[i])]

---------------------------------------------------------------------------
(* validate_rows *)

REQUIRED_COLS == <<"id", "name", "email", "role", "start_date", "active">>

EmailChar(c) == c \notin Whitespace /\ c # "@"

AllEmailChars(s, lo, hi) == lo <= hi /\ \A k \in lo..hi : EmailChar(s[k])

\* ^[^@\s]+@[^@\s]+\.[^@\s]+ ending at the end of s
EmailFull(s) ==
    \E i \in 1..Len(s) : \E j \in 1..Len(s) :
        /\ s[i] = "@"
        /\ s[j] = "."
        /\ AllEmailChars(s, 1, i - 1)
        /\ AllEmailChars(s, i + 1, j - 1)
        /\ AllEmailChars(s, j + 1, Len(s))

\* EMAIL_RE.match(s): Python's $ also matches before one trailing newline
EMAIL_RE_match(s) ==
    \/ EmailFull(s)
    \/ s # <<>> /\ s[Len(s)] = "\n" /\ EmailFull(SubSeq(s, 1, Len(s) - 1))

RECURSIVE join(_)
\* ";".join(errs); a descriptor is the text as a sequence of rule names and
\* ";" separators, the empty text being <<>>
join(errs) ==
    IF errs = <<>> THEN <<>>
    ELSE IF Len(errs) = 1 THEN errs
    ELSE <<Head(errs), ";">> \o join(Tail(errs))

Append1(cond, name) == IF cond THEN <<name>> ELSE <<>>

\* the list errs of row_errors when its six checks have run
errs_of(row) ==
    Append1(~Truthy(row.id) \/ strip(str(row.id)) = <<>>, "missing_id")
    \o Append1(~Truthy(row.name), "missing_name")
    \o Append1(~Truthy(row.email) \/ ~EMAIL_RE_match(str(row.email)),
               "invalid_email")
    \o Append1(~Truthy(row.role), "missing_role")
    \o Append1(~Truthy(row.start_date), "invalid_start_date")
    \o Append1(row.active.t = "none", "invalid_active")

\* Mutation of row_errors: it returns at the first rule that fails.
row_errors_first_only(row) ==
    join(SubSeq(errs_of(row), 1, IF errs_of(row) = <<>> THEN 0 ELSE 1))

row_errors(row) == join(errs_of(row))

WithError(r) ==
    [idx |-> r.idx, id |-> r.id, name |-> r.name, email |-> r.email,
     role |-> r.role, start_date |-> r.start_date, active |-> r.active,
     error |-> row_errors(r)]

DropError(r) ==
    [idx |-> r.idx, id |-> r.id, name |-> r.name, email |-> r.email,
     role |-> r.role, start_date |-> r.start_date, active |-> r.active]

\* df["error"] = df.apply(row_errors, axis=1)
ApplyRowErrors(d) == [i \in 1..Len(d) |-> WithError(d[i])]

RECURSIVE DropDupScan(_, _)
DropDupScan(d, seen) ==
    IF d = <<>> THEN <<>>
    ELSE IF Head(d).id \in seen
         THEN DropDupScan(Tail(d), seen)
         ELSE <<Head(d)>> \o DropDupScan(Tail(d), seen \cup {Head(d).id})

Reverse(s) == [i \in 1..Len(s) |-> s[Len(s) + 1 - i]]

\* Mutation of drop_duplicates: keep="last".
drop_duplicates_keep_last(d) == Reverse(DropDupScan(Reverse(d), {}))

\* valid.drop_duplicates(subset=["id"], keep="first")
drop_duplicates(d) == DropDupScan(d, {})

IsInvalidRow(r) == r.error # <<>>

IsValidRow(r) == r.error = <<>>

\* Mutation of the invalid selection: duplicates are dropped from it too.
SelectInvalidDeduplicated(d) == drop_duplicates(SelectSeq(d, IsInvalidRow))

\* df[df["error"] != ""]
SelectInvalid(d) == SelectSeq(d, IsInvalidRow)

\* Mutation of the valid selection: the mask is not applied.
SelectValidUnfiltered(d) == d

\* df[df["error"] == ""]
SelectValid(d) == SelectSeq(d, IsValidRow)

\* valid.drop(columns=["error"])
DropErrorColumn(d) == [i \in 1..Len(d) |-> DropError(d[i])]

---------------------------------------------------------------------------
(* write_report *)

RECURSIVE split(_)
\* error.split(";"): the rule names of a descriptor
split(e) ==
    IF e = <<>> THEN <<>>
    ELSE IF Head(e) = ";" THEN split(Tail(e))
    ELSE <<Head(e)>> \o split(Tail(e))

RECURSIVE stack(_)
\* invalid["error"].str.split(";", expand=True).stack(): every token of every
\* invalid row, row by row
stack(inv) ==
    IF inv = <<>> THEN <<>> ELSE split(Head(inv).error) \o stack(Tail(inv))

Count(toks, k) == Cardinality({i \in 1..Len(toks) : toks[i] = k})

RECURSIVE Uniques(_, _)
\* the distinct tokens in the order they first occur
Uniques(toks, seen) ==
    IF toks = <<>> THEN <<>>
    ELSE IF Head(toks) \in seen THEN Uniques(Tail(toks), seen)
    ELSE <<Head(toks)>> \o Uniques(Tail(toks), seen \cup {Head(toks)})

Without(s, m) == SubSeq(s, 1, m - 1) \o SubSeq(s, m + 1, Len(s))

RECURSIVE SortDescending(_, _)
\* sort_values(ascending=False) of the counts: descending count, equal
\* counts in the order the tokens first occur
SortDescending(ks, toks) ==
    IF ks = <<>> THEN <<>>
    ELSE LET m == CHOOSE i \in 1..Len(ks) :
                    /\ \A j \in 1..Len(ks) : Count(toks, ks[j]) <= Count(toks, ks[i])
                    /\ \A j \in 1..(i - 1) : Count(toks, ks[j]) < Count(toks, ks[i])
         IN <<ks[m]>> \o SortDescending(Without(ks, m), toks)

\* Mutation of value_counts: sort=False, the tokens in first-seen order.
value_counts_unsorted(toks) ==
    LET ks == Uniques(toks, {})
    IN [i \in 1..Len(ks) |-> [k |-> ks[i], v |-> Count(toks, ks[i])]]

\* .value_counts(): <<token, count>> entries, most frequent first
value_counts(toks) ==
    LET ks == SortDescending(Uniques(toks, {}), toks)
    IN [i \in 1..Len(ks) |-> [k |-> ks[i], v |-> Count(toks, ks[i])]]

TopN == 5

\* .head(5)
head(s) == SubSeq(s, 1, IF Len(s) < TopN THEN Len(s) ELSE TopN)

top_errors(inv) == head(value_counts(stack(inv)))

\* The report: the two counts of the header, then one line per entry of
\* top_errors, or the single line "- keine" when invalid is empty.
write_report(v, inv) ==
    [n_valid |-> Len(v), n_invalid |-> Len(inv),
     top |-> IF inv # <<>> THEN top_errors(inv) ELSE <<>>,
     keine |-> inv = <<>>]

---------------------------------------------------------------------------
(* Inputs: the cells pd.read_csv can hand over *)

T42 == <<"4", "2">>

IdCells ==
    {StrV(T42), StrV(<<" ", "7", " ">>), StrV(<<" ", " ">>), IntV(7), NaN}

NameCells ==
    {StrV(<<"A", "n", "n", " ", " ", "L", "e", "e">>),
     StrV(<<" ", "B", "o", "\t", "b", " ">>),
     StrV(<<" ", " ", " ">>),
     NaN}

EmailCells ==
    {StrV(<<"a", "@", "b", ".", "c", "o", "m">>),
     StrV(<<" ", "a", "@", "b", ".", "c", " ">>),
     StrV(<<"n", "o", "t", "-", "a", "n", "-", "e", "m", "a", "i", "l">>),
     StrV(<<"a", "@", "@", "b", ".", "c">>),
     StrV(<<"a", " ", "b", "@", "c", ".", "d">>),
     StrV(<<" ">>),
     NaN}

RoleCells == {StrV(<<"e", "n", "g">>), StrV(<<" ", " ">>), NaN}

DateCells ==
    {StrV(<<"1", "5", ".", "0", "5", ".", "2", "0", "2", "3">>),
     StrV(<<"2", "0", "2", "3", "-", "0", "5", "-", "0", "3">>),
     StrV(<<"2", "0", "2", "4", "-", "0", "2", "-", "2", "9">>),
     StrV(<<"0", "3", "/", "0", "4", "/", "2", "0", "2", "3">>),
     StrV(<<"3", "1", ".", "0", "2", ".", "2", "0", "2", "3">>),
     StrV(<<"a", "b", "c">>),
     StrV(<<" ", " ">>),
     NaN}

ActiveCells ==
    {StrV(<<"y", "e", "s">>), StrV(<<" ", "T", "r", "u", "e", " ">>),
     StrV(<<"Y">>), StrV(<<"1">>), StrV(<<"t", "r", "u", "e">>),
     StrV(<<"F", "A", "L", "S", "E">>), StrV(<<"N", "o", "\t">>),
     StrV(<<"n">>), StrV(<<"0">>),
     StrV(<<"m", "a", "y", "b", "e">>), StrV(<<"y", "e", "s", "!">>),
     StrV(<<"t", " ", "r", "u", "e">>), StrV(<<" ">>),
     IntV(1), IntV(0), IntV(2), FloatV(1), FloatV(0),
     BoolV(TRUE), BoolV(FALSE), NaN}

Row(i, id, name, email, role, start_date, active) ==
    [idx |-> i, id |-> id, name |-> name, email |-> email, role |-> role,
     start_date |-> start_date, active |-> active]

\* the active cells every combination of the other cells is tried with
ActiveCore ==
    {StrV(<<"y", "e", "s">>), StrV(<<"N", "o", "\t">>),
     StrV(<<"m", "a", "y", "b", "e">>), FloatV(1), NaN}

\* the one-row files: every record the cells above make up, with the active
\* cells of ActiveCore, and one well-formed record with every active cell
RecordRows ==
    {Row(0, id, name, email, role, start_date, active) :
        id \in IdCells, name \in NameCells, email \in EmailCells,
        role \in RoleCells, start_date \in DateCells, active \in ActiveCore}
    \cup
    {Row(0, StrV(T42), StrV(<<"A", "n", "n">>),
         StrV(<<"a", "@", "b", ".", "c", "o", "m">>), StrV(<<"e", "n", "g">>),
         StrV(<<"1", "5", ".", "0", "5", ".", "2", "0", "2", "3">>), active) :
        active \in ActiveCells}

Ann == StrV(<<"A", "n", "n", " ", " ", "L", "e", "e">>)
Bob == StrV(<<" ", "B", "o", "b">>)
GoodMail == StrV(<<"a", "@", "b", ".", "c", "o", "m">>)
BadMail == StrV(<<"n", "o", "t", "-", "a", "n", "-", "e", "m", "a", "i", "l">>)
Eng == StrV(<<"e", "n", "g">>)
Blank == StrV(<<" ", " ">>)
Day1 == StrV(<<"1", "5", ".", "0", "5", ".", "2", "0", "2", "3">>)
Yes == StrV(<<"y", "e", "s">>)
Maybe == StrV(<<"m", "a", "y", "b", "e">>)

\* the rows a file of several records is made of: valid rows with equal and
\* with different ids, invalid rows with equal ids, a row breaking every rule
SampleRows ==
    {Row(0, StrV(T42), Ann, GoodMail, Eng, Day1, Yes),
     Row(0, StrV(<<" ", "4", "2", " ">>), Bob, GoodMail, Eng, Day1, StrV(<<"0">>)),
     Row(0, StrV(<<"7">>), Bob, GoodMail, Eng, Day1, Yes),
     Row(0, StrV(T42), Ann, BadMail, Eng, Day1, Yes),
     Row(0, StrV(T42), Ann, GoodMail, Eng, NaN, Maybe),
     Row(0, Blank, Blank, BadMail, Blank, Blank, Maybe)}

MaxRows == 4

\* pd.read_csv numbers the rows 0, 1, ...
Reindex(d) == [i \in 1..Len(d) |-> [d[i] EXCEPT !.idx = i - 1]]

Batches ==
    UNION {{Reindex(b) : b \in [1..n -> SampleRows]} : n \in 0..MaxRows}

AllColumns == {REQUIRED_COLS[i] : i \in 1..Len(REQUIRED_COLS)}

\* the column sets of the input files: complete, or lacking required columns
ColumnSets ==
    {AllColumns \cup {"note"}, AllColumns \ {"role"},
     AllColumns \ {"id", "active"}}

---------------------------------------------------------------------------
(* main *)

NoReport == [n_valid |-> 0, n_invalid |-> 0, top |-> <<>>, keine |-> FALSE]

NoKpi == [printed |-> FALSE, n_valid |-> 0, n_invalid |-> 0]

\* Before main runs: the file (its columns and rows) is given, nothing is
\* loaded and nothing is written.
Start(cols, rows) ==
    /\ pc = "start"
    /\ columns = cols
    /\ input = rows
    /\ df = <<>>
    /\ error = <<>>
    /\ valid0 = <<>>
    /\ valid = <<>>
    /\ invalid = <<>>
    /\ before = 0
    /\ dropped = 0
    /\ outputs = {}
    /\ report = NoReport
    /\ kpi = NoKpi
    /\ prev = <<>>
    /\ passes = 0

Init == \E cols \in ColumnSets : \E rows \in Batches : Start(cols, rows)

InitRecord ==
    \E cols \in {AllColumns, AllColumns \ {"role"}} :
        \E r \in RecordRows : Start(cols, <<r>>)

\* Mutation of the column check: the last required column is not checked.
missing_cols_but_last(cols) ==
    SelectSeq(SubSeq(REQUIRED_COLS, 1, Len(REQUIRED_COLS) - 1),
              LAMBDA c : c \notin cols)

\* missing = [c for c in REQUIRED_COLS if c not in df.columns]
missing_cols(cols) == SelectSeq(REQUIRED_COLS, LAMBDA c : c \notin cols)

\* read_csv returns the frame
ReadCsvOk ==
    /\ pc = "start"
    /\ missing_cols(columns) = <<>>
    /\ df' = input
    /\ pc' = "read"
    /\ UNCHANGED <<columns, input, error, valid0, valid, invalid, before,
                   dropped, outputs, report, kpi, prev, passes>>

\* read_csv raises ValueError(f"Fehlende Spalten: {missing}"); main ends
ReadCsvRaise ==
    /\ pc = "start"
    /\ missing_cols(columns) # <<>>
    /\ error' = <<"Fehlende Spalten: ">> \o missing_cols(columns)
    /\ pc' = "aborted"
    /\ UNCHANGED <<columns, input, df, valid0, valid, invalid, before,
                   dropped, outputs, report, kpi, prev, passes>>

NormalizeStrings ==
    /\ pc = "read"
    /\ df' = normalize_strings(df)
    /\ pc' = "strings"
    /\ UNCHANGED <<columns, input, error, valid0, valid, invalid, before,
                   dropped, outputs, report, kpi, prev, passes>>

NormalizeTypes ==
    /\ pc = "strings"
    /\ df' = normalize_types(df)
    /\ pc' = "types"
    /\ UNCHANGED <<columns, input, error, valid0, valid, invalid, before,
                   dropped, outputs, report, kpi, prev, passes>>

\* validate_rows: valid0 is `valid` as line 84 leaves it, before the
\* duplicates are dropped
ValidateRows ==
    /\ pc = "types"
    /\ LET e == ApplyRowErrors(df)
           v0 == SelectValid(e)
           v1 == drop_duplicates(v0)
       IN /\ invalid' = SelectInvalid(e)
          /\ valid0' = v0
          /\ before' = Len(v0)
          /\ dropped' = Len(v0) - Len(v1)
          /\ valid' = DropErrorColumn(v1)
    /\ pc' = "validated"
    /\ UNCHANGED <<columns, input, df, error, outputs, report, kpi, prev,
                   passes>>

WriteValidCsv ==
    /\ pc = "validated"
    /\ outputs' = outputs \cup {"valid_csv"}
    /\ pc' = "valid_csv"
    /\ UNCHANGED <<columns, input, df, error, valid0, valid, invalid, before,
                   dropped, report, kpi, prev, passes>>

WriteInvalidCsv ==
    /\ pc = "valid_csv"
    /\ outputs' = outputs \cup {"invalid_csv"}
    /\ pc' = "invalid_csv"
    /\ UNCHANGED <<columns, input, df, error, valid0, valid, invalid, before,
                   dropped, report, kpi, prev, passes>>

SaveSqlite ==
    /\ pc = "invalid_csv"
    /\ outputs' = outputs \cup {"table"}
    /\ pc' = "saved"
    /\ UNCHANGED <<columns, input, df, error, valid0, valid, invalid, before,
                   dropped, report, kpi, prev, passes>>

WriteReport ==
    /\ pc = "saved"
    /\ report' = write_report(valid, invalid)
    /\ outputs' = outputs \cup {"report"}
    /\ pc' = "reported"
    /\ UNCHANGED <<columns, input, df, error, valid0, valid, invalid, before,
                   dropped, kpi, prev, passes>>

PrintKpi ==
    /\ pc = "reported"
    /\ kpi' = [printed |-> TRUE, n_valid |-> Len(valid),
               n_invalid |-> Len(invalid)]
    /\ pc' = "done"
    /\ UNCHANGED <<columns, input, df, error, valid0, valid, invalid, before,
                   dropped, outputs, report, prev, passes>>

Next ==
    \/ ReadCsvOk
    \/ ReadCsvRaise
    \/ NormalizeStrings
    \/ NormalizeTypes
    \/ ValidateRows
    \/ WriteValidCsv
    \/ WriteInvalidCsv
    \/ SaveSqlite
    \/ WriteReport
    \/ PrintKpi

\* main on files of up to MaxRows rows
Spec == Init /\ [][Next]_vars

\* main on every one-row file
SpecRecord == InitRecord /\ [][Next]_vars

---------------------------------------------------------------------------
(* Normalization applied again to its own result *)

MaxPasses == 2

InitNorm ==
    /\ \E r \in RecordRows : Start(AllColumns, <<r>>)

\* normalize_types(normalize_strings(df)), as main lines 138-139 apply them
NormalizePass ==
    /\ pc = "start"
    /\ passes < MaxPasses
    /\ prev' = (IF passes = 0 THEN input ELSE df)
    /\ df' = normalize_types(normalize_strings(IF passes = 0 THEN input ELSE df))
    /\ passes' = passes + 1
    /\ UNCHANGED <<pc, columns, input, error, valid0, valid, invalid, before,
                   dropped, outputs, report, kpi>>

NextNorm == NormalizePass

SpecNorm == InitNorm /\ [][NextNorm]_vars

---------------------------------------------------------------------------
(* Properties *)

\* validate_rows has returned
Validated ==
    pc \in {"validated", "valid_csv", "invalid_csv", "saved", "reported", "done"}

\* how many rows of d carry the original row index i
Occurs(d, i) == Cardinality({k \in 1..Len(d) : d[k].idx = i})

IdxOf(d) == {d[k].idx : k \in 1..Len(d)}

\* C1: after validate_rows every input row, by its original row index, is in
\* exactly one of valid-before-deduplication and invalid, and the two sizes
\* add up to the number of input rows.
C1_PartitionComplete ==
    Validated =>
        /\ before + Len(invalid) = Len(input)
        /\ before = Len(valid0)
        /\ \A i \in 0..(Len(input) - 1) :
               Occurs(valid0, i) + Occurs(invalid, i) = 1
        /\ IdxOf(valid0) \cup IdxOf(invalid) = 0..(Len(input) - 1)

C1_Witness ==
    /\ pc = "validated"
    /\ Len(valid0) >= 2
    /\ Len(invalid) >= 1
    /\ dropped >= 1

\* The rules of the table of section 4.4, in table order.
RuleOrder ==
    <<"missing_id", "missing_name", "invalid_email", "missing_role",
      "invalid_start_date", "invalid_active">>

\* The table of section 4.4: when a normalized record violates a rule.
Violates(rule, r) ==
    CASE rule = "missing_id" -> isna(r.id) \/ strip(r.id.s) = <<>>
      [] rule = "missing_name" -> isna(r.name)
      [] rule = "invalid_email" -> isna(r.email) \/ ~EmailFull(r.email.s)
      [] rule = "missing_role" -> isna(r.role)
      [] rule = "invalid_start_date" -> isna(r.start_date)
      [] rule = "invalid_active" -> isna(r.active)

ViolatedRules(r) == SelectSeq(RuleOrder, LAMBDA rule : Violates(rule, r))

\* C2: the descriptor of a normalized record lists exactly the rules of the
\* table it violates, each checked on its own, in table order, joined by
\* ";"; the record is valid iff the descriptor is empty.
C2_DescriptorIsViolatedRules ==
    Validated =>
        \A i \in 1..Len(df) :
            LET want == ViolatedRules(df[i])
            IN /\ want = <<>> =>
                      /\ df[i].idx \in IdxOf(valid0)
                      /\ df[i].idx \notin IdxOf(invalid)
               /\ want # <<>> =>
                      /\ df[i].idx \notin IdxOf(valid0)
                      /\ \E k \in 1..Len(invalid) :
                             /\ invalid[k].idx = df[i].idx
                             /\ split(invalid[k].error) = want
                             /\ Len(invalid[k].error) = 2 * Len(want) - 1
                             /\ \A q \in 1..(Len(want) - 1) :
                                    invalid[k].error[2 * q] = ";"

C2_Witness ==
    /\ pc = "validated"
    /\ Len(invalid) = 1
    /\ split(invalid[1].error) = <<"missing_name", "invalid_email", "invalid_active">>

MinIdx(S) == CHOOSE m \in S : \A x \in S : m <= x

\* C3: the returned valid set has no two records with the same id, the
\* survivor of an id is the valid row with the smallest original row index,
\* and the survivors keep their relative order.
C3_DedupKeepsFirst ==
    Validated =>
        /\ \A a \in 1..Len(valid) : \A b \in 1..Len(valid) :
               a # b => valid[a].id # valid[b].id
        /\ \A k \in 1..Len(valid0) :
               \E a \in 1..Len(valid) :
                   /\ valid[a].id = valid0[k].id
                   /\ valid[a].idx =
                          MinIdx({valid0[j].idx : j \in
                                     {j \in 1..Len(valid0) : valid0[j].id = valid0[k].id}})
        /\ \A a \in 1..Len(valid) :
               \E k \in 1..Len(valid0) : valid[a] = DropError(valid0[k])
        /\ \A a \in 1..Len(valid) : \A b \in 1..Len(valid) :
               a < b => valid[a].idx < valid[b].idx

C3_Witness ==
    /\ pc = "validated"
    /\ dropped >= 1
    /\ Len(valid) >= 2
    /\ valid[1].idx > 0

\* C4: deduplication changes only the valid partition: no valid row, dropped
\* or kept, is in the invalid set, and the invalid set holds every row with a
\* non-empty descriptor once, also rows that share an id.
C4_DedupLeavesInvalid ==
    Validated =>
        /\ \A k \in 1..Len(valid0) : valid0[k].idx \notin IdxOf(invalid)
        /\ Len(invalid) =
               Cardinality({i \in 1..Len(df) : ViolatedRules(df[i]) # <<>>})
        /\ \A i \in 1..Len(df) :
               ViolatedRules(df[i]) # <<>> =>
                   /\ Occurs(invalid, df[i].idx) = 1
                   /\ \E k \in 1..Len(invalid) : DropError(invalid[k]) = df[i]
        /\ Len(valid) + dropped + Len(invalid) = Len(input)

C4_Witness ==
    /\ pc = "validated"
    /\ dropped >= 1
    /\ \E a \in 1..Len(invalid) : \E b \in 1..Len(invalid) :
           a # b /\ invalid[a].id = invalid[b].id

\* A raw cell that is absent (an empty CSV cell) or blank.
RawMissing(c) == c.t = "nan" \/ (c.t = "str" /\ strip(c.s) = <<>>)

\* A raw email that is present and malformed.
RawBadEmail(c) == c.t = "str" /\ strip(c.s) # <<>> /\ ~EmailFull(strip(c.s))

\* The raw dates that are no calendar date.
UnparseableDates ==
    {StrV(<<"a", "b", "c">>),
     StrV(<<"3", "1", ".", "0", "2", ".", "2", "0", "2", "3">>)}

\* A raw active cell holding a token that is no boolean token.
RawBadBool(c) ==
    /\ c.t = "str"
    /\ strip(c.s) # <<>>
    /\ lower(strip(c.s)) \notin TrueTokens \cup FalseTokens

\* The content problems of a raw record, as the rules that must report them.
Problems(r) ==
    {rule \in {RuleOrder[q] : q \in 1..Len(RuleOrder)} :
        CASE rule = "missing_id" -> RawMissing(r.id)
          [] rule = "missing_name" -> RawMissing(r.name)
          [] rule = "invalid_email" -> RawBadEmail(r.email)
          [] rule = "missing_role" -> RawMissing(r.role)
          [] rule = "invalid_start_date" -> r.start_date \in UnparseableDates
          [] rule = "invalid_active" -> RawBadBool(r.active)}

SixColumns == {"id", "name", "email", "role", "start_date", "active"}

\* C5: a raw record with a content problem (malformed email, unparseable
\* date, unrecognized boolean token, missing name, role or id cell) never
\* aborts the run and is in the invalid partition with the rule of every
\* such problem in its descriptor.
C5_ProblemsAreRouted ==
    /\ SixColumns \subseteq columns => pc # "aborted"
    /\ Validated =>
           \A i \in 1..Len(input) :
               \A rule \in Problems(input[i]) :
                   \E k \in 1..Len(invalid) :
                       /\ invalid[k].idx = input[i].idx
                       /\ \E q \in 1..Len(invalid[k].error) :
                              invalid[k].error[q] = rule

\* C6: normalizing an already normalized record yields the same record.
C6_NormalizeIdempotent ==
    passes >= 2 => df = prev

\* The row of scenario 3: active = "maybe", start_date an empty cell, the
\* other four fields well-formed.
C7_Case ==
    /\ Len(input) = 1
    /\ input[1].active = Maybe
    /\ input[1].start_date = NaN
    /\ ~RawMissing(input[1].id) /\ ~RawMissing(input[1].name)
    /\ ~RawMissing(input[1].role)
    /\ ~RawMissing(input[1].email) /\ ~RawBadEmail(input[1].email)

\* C7 as stated: the descriptor of that row is invalid_active;invalid_start_date.
C7_DescriptorActiveFirst ==
    Validated /\ C7_Case =>
        /\ Len(invalid) = 1
        /\ invalid[1].error = <<"invalid_active", ";", "invalid_start_date">>

\* C7 amended: the row of scenario 3 is invalid and its descriptor is exactly
\* invalid_start_date;invalid_active, the order of the table of section 4.4.
C7_DescriptorTableOrder ==
    Validated /\ C7_Case =>
        /\ valid = <<>>
        /\ Len(invalid) = 1
        /\ invalid[1].error = <<"invalid_start_date", ";", "invalid_active">>

C7_Witness ==
    /\ pc = "validated"
    /\ C7_Case
    /\ input[1].id = StrV(<<" ", "7", " ">>)
    /\ invalid # <<>>

\* C8: with a required column absent, read_csv raises an error naming the
\* missing columns and nothing after it runs: no frame is loaded, normalized
\* or validated and no output is written.
C8_MissingColumnAborts ==
    ~(SixColumns \subseteq columns) =>
        /\ pc \in {"start", "aborted"}
        /\ df = <<>> /\ valid0 = <<>> /\ valid = <<>> /\ invalid = <<>>
        /\ outputs = {}
        /\ report = NoReport
        /\ ~kpi.printed
        /\ pc = "aborted" =>
               /\ Len(error) = 1 + Cardinality(SixColumns \ columns)
               /\ {error[q] : q \in 2..Len(error)} = SixColumns \ columns

C8_Witness ==
    /\ pc = "aborted"
    /\ error = <<"Fehlende Spalten: ", "id", "active">>

\* how many invalid records violate rule k
RuleCount(k) ==
    Cardinality({i \in 1..Len(invalid) :
                    \E q \in 1..Len(invalid[i].error) : invalid[i].error[q] = k})

UsedRules == {k \in {RuleOrder[q] : q \in 1..Len(RuleOrder)} : RuleCount(k) > 0}

Listed == {report.top[q].k : q \in 1..Len(report.top)}

\* C9: the report lists at most five rule tokens, those with the highest
\* counts over all violated-rule tokens of the invalid records, in
\* non-increasing order of count, each with its exact count; with no invalid
\* record the single placeholder line stands instead.
C9_ReportTopFive ==
    pc \in {"reported", "done"} =>
        /\ Len(report.top) <= 5
        /\ invalid = <<>> => report.keine /\ report.top = <<>>
        /\ invalid # <<>> =>
               /\ ~report.keine
               /\ Listed \subseteq UsedRules
               /\ Cardinality(Listed) = Len(report.top)
               /\ Len(report.top) =
                      (IF Cardinality(UsedRules) < 5 THEN Cardinality(UsedRules) ELSE 5)
               /\ \A q \in 1..Len(report.top) :
                      report.top[q].v = RuleCount(report.top[q].k)
               /\ \A q \in 1..(Len(report.top) - 1) :
                      report.top[q].v >= report.top[q + 1].v
               /\ \A k \in UsedRules \ Listed : \A l \in Listed :
                      RuleCount(k) <= RuleCount(l)

C9_Witness ==
    /\ pc = "reported"
    /\ Cardinality(UsedRules) = 6
    /\ Len(report.top) = 5
    /\ report.top[1].v > report.top[2].v
    /\ report.top[2].v > report.top[5].v

\* The boolean a raw cell stands for (section 4.3).
SpecBool(c) ==
    IF c.t \in {"nan", "none"} THEN "null"
    ELSE LET s == lower(strip(str(c)))
         IN IF s \in {<<"t", "r", "u", "e">>, <<"1">>, <<"y", "e", "s">>, <<"y">>}
            THEN "true"
            ELSE IF s \in {<<"f", "a", "l", "s", "e">>, <<"0">>, <<"n", "o">>, <<"n">>}
            THEN "false"
            ELSE "null"

TypesDone == pc = "types" \/ Validated

\* C10: parse_bool gives null for a null cell, and otherwise true exactly for
\* the lower-cased trimmed string forms true, 1, yes, y, false exactly for
\* false, 0, no, n, and null for every other value; it never raises.
C10_ParseBool ==
    /\ SixColumns \subseteq columns => pc # "aborted"
    /\ TypesDone =>
           \A i \in 1..Len(df) :
               /\ df[i].active \in {PyTrue, PyFalse, None}
               /\ df[i].active = PyTrue <=> SpecBool(input[i].active) = "true"
               /\ df[i].active = PyFalse <=> SpecBool(input[i].active) = "false"
               /\ df[i].active = None <=> SpecBool(input[i].active) = "null"

C10_Witness ==
    /\ pc = "types"
    /\ input[1].active = StrV(<<" ", "T", "r", "u", "e", " ">>)
    /\ df[1].active = PyTrue

=============================================================================
